---- MODULE Spec2Model ----
(***************************************************************************)
(* Model of the match-engine command line client: the 50-byte frame codec  *)
(* (src/src/encoding.rs, src/src/types.rs) and the submit / cancel         *)
(* commands of src/src/main.rs.                                            *)
(*                                                                         *)
(* Byte buffers are sequences of numbers in 0..255; Rust's 0-based index i *)
(* is position i+1 of the sequence.  TLC's integers are 32 bits wide, so   *)
(* an unsigned integer of 16, 32 or 64 bits is kept as a sequence of 1, 2  *)
(* or 4 limbs of 16 bits, least significant limb first; u8 values are      *)
(* plain numbers.                                                          *)
(***************************************************************************)
EXTENDS Integers, Sequences, FiniteSets, TLC

\* ---------------------------------------------------------------- constants
MSG_ORDER_SUBMIT == 1
MSG_ORDER_CANCEL == 2
MSG_TRADE_BROADCAST == 10
MSG_STATUS_BROADCAST == 11
ORDER_TYPE_BUY == 1
ORDER_TYPE_SELL == 2
ORDER_PRICE_TYPE_LIMIT == 1
ORDER_PRICE_TYPE_MARKET == 2
MESSAGE_TOTAL_SIZE == 50
PAYLOAD_START == 2
LimbBase == 65536
ByteBase == 256

\* ------------------------------------------------------------------ bounds
\* longest input buffer handed to the decoders
MaxBufLen == 52
\* number of non-zero byte patterns the input buffers are filled with
NumPatterns == 2

\* ------------------------------------------------------- integers and bytes
\* the slice buf[a..b] of Rust: 0-based, b exclusive
Slice(buf, a, b) == SubSeq(buf, a + 1, b)

\* buf[a..b].copy_from_slice(src) / buf[a] = x
CopyInto(buf, a, src) ==
  [i \in 1..Len(buf) |->
     IF i > a /\ i <= a + Len(src) THEN src[i - a] ELSE buf[i]]

\* mutant: the bytes least significant first (to_le_bytes)
to_le_bytes(v) ==
  [k \in 1..(2 * Len(v)) |->
     IF k % 2 = 1 THEN v[(k + 1) \div 2] % ByteBase
                  ELSE v[k \div 2] \div ByteBase]

\* uN::to_be_bytes: the bytes of the limbs, most significant byte first
to_be_bytes(v) ==
  [k \in 1..(2 * Len(v)) |->
     LET j == 2 * Len(v) - k
         limb == v[(j \div 2) + 1]
     IN IF j % 2 = 1 THEN limb \div ByteBase ELSE limb % ByteBase]

\* uN::from_be_bytes: limbs rebuilt from bytes, most significant byte first
from_be_bytes(b) ==
  [i \in 1..(Len(b) \div 2) |->
     b[Len(b) - 2 * i + 1] * ByteBase + b[Len(b) - 2 * i + 2]]

\* the bytes of a limb sequence, least significant first
ToBytesLE(v) ==
  [k \in 1..(2 * Len(v)) |->
     IF k % 2 = 1 THEN v[(k + 1) \div 2] % ByteBase
                  ELSE v[k \div 2] \div ByteBase]

\* carry into limb i of a + b
RECURSIVE CarryInto(_, _, _)
CarryInto(a, b, i) ==
  IF i = 1 THEN 0
  ELSE (a[i - 1] + b[i - 1] + CarryInto(a, b, i - 1)) \div LimbBase

\* u64::wrapping add (what an unchecked + yields when overflow checks are off)
wrapping_add(a, b) ==
  [i \in 1..Len(a) |-> (a[i] + b[i] + CarryInto(a, b, i)) % LimbBase]

AddOverflows(a, b) == CarryInto(a, b, Len(a) + 1) # 0

\* u64::checked_add: None on overflow
checked_add(a, b) ==
  IF AddOverflows(a, b) THEN [some |-> FALSE, val |-> <<>>]
  ELSE [some |-> TRUE, val |-> wrapping_add(a, b)]

\* sum of the byte products A[i] * B[k - i + 1] of column k, from i upwards
RECURSIVE ColumnSum(_, _, _, _)
ColumnSum(A, B, k, i) ==
  IF i > Len(A) THEN 0
  ELSE (IF k - i + 1 >= 1 /\ k - i + 1 <= Len(B) THEN A[i] * B[k - i + 1] ELSE 0)
       + ColumnSum(A, B, k, i + 1)

RECURSIVE MulCarry(_, _, _)
MulCarry(A, B, k) ==
  IF k = 1 THEN 0
  ELSE (ColumnSum(A, B, k - 1, 1) + MulCarry(A, B, k - 1)) \div ByteBase

\* byte k (least significant first) of the full double-width product
MulDigit(A, B, k) == (ColumnSum(A, B, k, 1) + MulCarry(A, B, k)) % ByteBase

MulOverflows(a, b) ==
  LET A == ToBytesLE(a)
      B == ToBytesLE(b)
  IN \E k \in (Len(A) + 1)..(2 * Len(A)) : MulDigit(A, B, k) # 0

\* u64::checked_mul: None on overflow
checked_mul(a, b) ==
  LET A == ToBytesLE(a)
      B == ToBytesLE(b)
  IN IF MulOverflows(a, b) THEN [some |-> FALSE, val |-> <<>>]
     ELSE [some |-> TRUE,
           val |-> [i \in 1..Len(a) |->
                      MulDigit(A, B, 2 * i - 1) + ByteBase * MulDigit(A, B, 2 * i)]]

\* bitwise exclusive or of two bytes
RECURSIVE BitXor(_, _)
BitXor(a, b) ==
  IF a = 0 THEN b
  ELSE IF b = 0 THEN a
  ELSE (((a % 2) + (b % 2)) % 2) + 2 * BitXor(a \div 2, b \div 2)

\* iter().fold(0, |acc, &x| acc ^ x) from position i
RECURSIVE XorFold(_, _, _)
XorFold(s, i, acc) ==
  IF i > Len(s) THEN acc ELSE XorFold(s, i + 1, BitXor(acc, s[i]))

\* ---------------------------------------------------------------- checksum
\* mutant: the fold starts one byte late (buf[3..])
checksum_from_byte3(buf) ==
  IF Len(buf) < 3 THEN [panic |-> TRUE, val |-> 0]
  ELSE [panic |-> FALSE, val |-> XorFold(Slice(buf, 3, Len(buf)), 1, 0)]

\* buf[2..] panics when the buffer has fewer than 2 bytes
calculate_checksum(buf) ==
  IF Len(buf) < 2 THEN [panic |-> TRUE, val |-> 0]
  ELSE [panic |-> FALSE, val |-> XorFold(Slice(buf, 2, Len(buf)), 1, 0)]

main_calculate_checksum(buf) ==
  IF Len(buf) < 2 THEN [panic |-> TRUE, val |-> 0]
  ELSE [panic |-> FALSE, val |-> XorFold(Slice(buf, 2, Len(buf)), 1, 0)]

\* mutant: the fold starts at the tag byte (buf[1..])
types_checksum_from_tag(buf) ==
  IF Len(buf) < 1 THEN [panic |-> TRUE, val |-> 0]
  ELSE [panic |-> FALSE, val |-> XorFold(Slice(buf, 1, Len(buf)), 1, 0)]

types_calculate_checksum(buf) ==
  IF Len(buf) < 2 THEN [panic |-> TRUE, val |-> 0]
  ELSE [panic |-> FALSE, val |-> XorFold(Slice(buf, 2, Len(buf)), 1, 0)]

ZeroBuf == [i \in 1..MESSAGE_TOTAL_SIZE |-> 0]

\* ---------------------------------------------------------------- encoders
\* mutant: side and price kind written to each other's offset
OrderFieldsSwapped(buf, order, payload_start) ==
  LET b1 == CopyInto(buf, 1, <<MSG_ORDER_SUBMIT>>)
      b2 == CopyInto(b1, payload_start, to_be_bytes(order.product_id))
      b3 == CopyInto(b2, payload_start + 2, to_be_bytes(order.order_id))
      b4 == CopyInto(b3, payload_start + 10, to_be_bytes(order.price))
      b5 == CopyInto(b4, payload_start + 18, to_be_bytes(order.quantity))
      b6 == CopyInto(b5, payload_start + 23, <<order.order_type>>)
      b7 == CopyInto(b6, payload_start + 22, <<order.price_type>>)
      b8 == CopyInto(b7, payload_start + 24, to_be_bytes(order.submit_time))
  IN CopyInto(b8, payload_start + 32, to_be_bytes(order.expire_time))

\* the field writes of serialize_order (the same lines in encoding.rs and main.rs)
OrderFields(buf, order, payload_start) ==
  LET b1 == CopyInto(buf, 1, <<MSG_ORDER_SUBMIT>>)
      b2 == CopyInto(b1, payload_start, to_be_bytes(order.product_id))
      b3 == CopyInto(b2, payload_start + 2, to_be_bytes(order.order_id))
      b4 == CopyInto(b3, payload_start + 10, to_be_bytes(order.price))
      b5 == CopyInto(b4, payload_start + 18, to_be_bytes(order.quantity))
      b6 == CopyInto(b5, payload_start + 22, <<order.order_type>>)
      b7 == CopyInto(b6, payload_start + 23, <<order.price_type>>)
      b8 == CopyInto(b7, payload_start + 24, to_be_bytes(order.submit_time))
  IN CopyInto(b8, payload_start + 32, to_be_bytes(order.expire_time))

\* encoding.rs
serialize_order(order) ==
  LET buf == OrderFields(ZeroBuf, order, 2)
  IN CopyInto(buf, 0, <<calculate_checksum(buf).val>>)

\* main.rs
main_serialize_order(order) ==
  LET buf == OrderFields(ZeroBuf, order, 2)
  IN CopyInto(buf, 0, <<main_calculate_checksum(buf).val>>)

\* mutant: current_idx not advanced after bids_size, so ask_size overwrites it
\* and every later field sits 4 bytes early
serialize_stats_result_overlap(stats) ==
  LET payload_start_idx == 2
      b1 == CopyInto(ZeroBuf, 1, <<MSG_STATUS_BROADCAST>>)
      b2 == CopyInto(b1, payload_start_idx, stats.instance_tag)
      b3 == CopyInto(b2, payload_start_idx + 8, to_be_bytes(stats.product_id))
      b4 == CopyInto(b3, payload_start_idx + 10, to_be_bytes(stats.bids_size))
      b5 == CopyInto(b4, payload_start_idx + 10, to_be_bytes(stats.ask_size))
      b6 == CopyInto(b5, payload_start_idx + 14, to_be_bytes(stats.matched_orders))
      b7 == CopyInto(b6, payload_start_idx + 18, to_be_bytes(stats.total_received_orders))
      buf == CopyInto(b7, payload_start_idx + 22, to_be_bytes(stats.start_time))
  IN CopyInto(buf, 0, <<types_calculate_checksum(buf).val>>)

\* types.rs
serialize_stats_result(stats) ==
  LET payload_start_idx == 2
      b1 == CopyInto(ZeroBuf, 1, <<MSG_STATUS_BROADCAST>>)
      b2 == CopyInto(b1, payload_start_idx, stats.instance_tag)
      b3 == CopyInto(b2, payload_start_idx + 8, to_be_bytes(stats.product_id))
      b4 == CopyInto(b3, payload_start_idx + 10, to_be_bytes(stats.bids_size))
      b5 == CopyInto(b4, payload_start_idx + 14, to_be_bytes(stats.ask_size))
      b6 == CopyInto(b5, payload_start_idx + 18, to_be_bytes(stats.matched_orders))
      b7 == CopyInto(b6, payload_start_idx + 22, to_be_bytes(stats.total_received_orders))
      buf == CopyInto(b7, payload_start_idx + 26, to_be_bytes(stats.start_time))
  IN CopyInto(buf, 0, <<types_calculate_checksum(buf).val>>)

\* ---------------------------------------------------------------- decoders
\* Result<T, E>: Ok(v) / Err(e)
Ok(v) == [ok |-> TRUE, val |-> v, err |-> <<>>]
Err(e) == [ok |-> FALSE, val |-> <<>>, err |-> e]

\* mutant: every length other than 50 is refused
MatchResultNotExact(buf) == Len(buf) # MESSAGE_TOTAL_SIZE

\* if buf.len() < MESSAGE_TOTAL_SIZE, in deserialize_match_result
MatchResultTooSmall(buf) == Len(buf) < MESSAGE_TOTAL_SIZE

\* mutant: a buffer one byte short passes the check
StatsTooSmallOffByOne(buf) == Len(buf) < MESSAGE_TOTAL_SIZE - 1

\* if buf.len() < MESSAGE_TOTAL_SIZE, in deserialize_stats_result
StatsTooSmall(buf) == Len(buf) < MESSAGE_TOTAL_SIZE

\* if buf.len() < MESSAGE_TOTAL_SIZE, in decode_broadcast_message
BroadcastTooSmall(buf) == Len(buf) < MESSAGE_TOTAL_SIZE

\* mutant: the tag is read from byte 0
MsgTypeFromByte0(buf) == buf[1]

\* let msg_type = buf[1]
MsgType(buf) == buf[2]

\* mutant: internal_match_time read again from the trade_network_time bytes
deserialize_match_result_repeat(buf) ==
  IF MatchResultTooSmall(buf)
  THEN Err(<<"Buffer size is too small for MatchResult.">>)
  ELSE Ok([instance_tag |-> Slice(buf, 2, 10),
           product_id |-> from_be_bytes(Slice(buf, 10, 12)),
           buy_order_id |-> from_be_bytes(Slice(buf, 12, 20)),
           sell_order_id |-> from_be_bytes(Slice(buf, 20, 28)),
           price |-> from_be_bytes(Slice(buf, 28, 36)),
           quantity |-> from_be_bytes(Slice(buf, 36, 40)),
           trade_network_time |-> from_be_bytes(Slice(buf, 40, 44)),
           internal_match_time |-> from_be_bytes(Slice(buf, 40, 44))])

deserialize_match_result(buf) ==
  IF MatchResultTooSmall(buf)
  THEN Err(<<"Buffer size is too small for MatchResult.">>)
  ELSE LET i0 == PAYLOAD_START
           i1 == i0 + 8
           i2 == i1 + 2
           i3 == i2 + 8
           i4 == i3 + 8
           i5 == i4 + 8
           i6 == i5 + 4
           i7 == i6 + 4
       IN Ok([instance_tag |-> Slice(buf, i0, i0 + 8),
              product_id |-> from_be_bytes(Slice(buf, i1, i1 + 2)),
              buy_order_id |-> from_be_bytes(Slice(buf, i2, i2 + 8)),
              sell_order_id |-> from_be_bytes(Slice(buf, i3, i3 + 8)),
              price |-> from_be_bytes(Slice(buf, i4, i4 + 8)),
              quantity |-> from_be_bytes(Slice(buf, i5, i5 + 4)),
              trade_network_time |-> from_be_bytes(Slice(buf, i6, i6 + 4)),
              internal_match_time |-> from_be_bytes(Slice(buf, i7, i7 + 4))])

deserialize_stats_result(buf) ==
  IF StatsTooSmall(buf)
  THEN Err(<<"Buffer size is too small for BroadcastStats.">>)
  ELSE LET i0 == PAYLOAD_START
           i1 == i0 + 8
           i2 == i1 + 2
           i3 == i2 + 4
           i4 == i3 + 4
           i5 == i4 + 4
           i6 == i5 + 4
       IN Ok([instance_tag |-> Slice(buf, i0, i0 + 8),
              product_id |-> from_be_bytes(Slice(buf, i1, i1 + 2)),
              bids_size |-> from_be_bytes(Slice(buf, i2, i2 + 4)),
              ask_size |-> from_be_bytes(Slice(buf, i3, i3 + 4)),
              matched_orders |-> from_be_bytes(Slice(buf, i4, i4 + 4)),
              total_received_orders |-> from_be_bytes(Slice(buf, i5, i5 + 4)),
              start_time |-> from_be_bytes(Slice(buf, i6, i6 + 8))])

\* A formatted string is the sequence of its literal text and the values
\* interpolated into it.  The field calls lists the decoders invoked.
decode_broadcast_message(buf) ==
  IF BroadcastTooSmall(buf)
  THEN [ok |-> FALSE, val |-> <<>>, err |-> <<"Received buffer is too small.">>,
        calls |-> <<>>]
  ELSE LET msg_type == MsgType(buf)
       IN IF msg_type = MSG_TRADE_BROADCAST
          THEN LET r == deserialize_match_result(buf)
               IN IF ~r.ok
                  THEN [ok |-> FALSE, val |-> <<>>,
                        err |-> <<"Failed to decode MatchResult: ">> \o r.err,
                        calls |-> <<"deserialize_match_result">>]
                  ELSE [ok |-> TRUE,
                        val |-> <<"TRADE: Product=", r.val.product_id,
                                  "Price=", r.val.price,
                                  "Qty=", r.val.quantity,
                                  "BuyID=", r.val.buy_order_id,
                                  "SellId=", r.val.sell_order_id,
                                  "Net=", r.val.trade_network_time,
                                  "Match=", r.val.internal_match_time>>,
                        err |-> <<>>,
                        calls |-> <<"deserialize_match_result">>]
          ELSE IF msg_type = MSG_STATUS_BROADCAST
          THEN LET s == deserialize_stats_result(buf)
               IN IF ~s.ok
                  THEN [ok |-> FALSE, val |-> <<>>,
                        err |-> <<"Failed to decode BroadcastStats: ">> \o s.err,
                        calls |-> <<"deserialize_stats_result">>]
                  ELSE [ok |-> TRUE,
                        val |-> <<"STATUS: Product=", s.val.product_id,
                                  "Bids=", s.val.bids_size,
                                  "Asks=", s.val.ask_size,
                                  "Matched=", s.val.matched_orders,
                                  "Received=", s.val.total_received_orders>>,
                        err |-> <<>>,
                        calls |-> <<"deserialize_stats_result">>]
          ELSE [ok |-> FALSE, val |-> <<>>,
                err |-> <<"Unknown or unhandled message type: ", buf>>,
                calls |-> <<>>]

\* ------------------------------------------------------- command line client
Zero64 == <<0, 0, 0, 0>>
\* 1_000_000_000 as a u64
ExpireFactor == <<51712, 15258, 0, 0>>
\* 1000*1000*1000 as a u64
OrderExpireOffset == <<51712, 15258, 0, 0>>

\* clock is what SystemTime::now() reads: a u64 count of nanoseconds, a time
\* before the epoch, or a count that does not fit 64 bits
get_nanos_since_epoch(clock) ==
  IF clock.kind = "before_epoch" THEN Err(<<"SystemTime before UNIX EPOCH: ">>)
  ELSE IF clock.kind = "too_large" THEN Err(<<"Timestamp too large">>)
  ELSE Ok(clock.nanos)

\* send is what socket.send_to does: Ok(bytes_sent) or an error
send_multicast_message(message, send) ==
  IF send.ok
  THEN IF send.bytes_sent = Len(message) THEN Ok(<<>>)
       ELSE Err(<<"Partial send: ", send.bytes_sent, Len(message)>>)
  ELSE Err(<<"Failed to send multicast message to ">>)

\* the datagrams socket.send_to puts on the network
DatagramsSent(message, send) ==
  IF send.ok THEN <<SubSeq(message, 1, send.bytes_sent)>> ELSE <<>>

\* outcome of a command: status "ok" (Ok(())), "err" (Err(err)) or "panic";
\* wire is the datagrams sent, message the serialized frame, printed the
\* frame shown after a successful send
Outcome(status, err, wire, message, printed) ==
  [status |-> status, err |-> err, wire |-> wire, message |-> message,
   printed |-> printed]

\* submit_time + 1000*1000*1000: an overflow panics where overflow checks are
\* compiled in (debug profile) and wraps where they are not (release profile)
OrderExpireTime(submit_time, build) ==
  IF AddOverflows(submit_time, OrderExpireOffset) /\ build = "debug"
  THEN [panic |-> TRUE, val |-> <<>>]
  ELSE [panic |-> FALSE, val |-> wrapping_add(submit_time, OrderExpireOffset)]

handle_submit(args, env) ==
  LET t == get_nanos_since_epoch(env.clock)
  IN IF ~t.ok THEN Outcome("err", t.err, <<>>, <<>>, <<>>)
     ELSE
       LET submit_time == t.val
           expire_nanos == checked_mul(args.expire, ExpireFactor)
           sum == IF expire_nanos.some
                  THEN checked_add(submit_time, expire_nanos.val)
                  ELSE [some |-> FALSE, val |-> <<>>]
       IN IF args.expire # Zero64 /\ ~expire_nanos.some
          THEN Outcome("err", <<"Expiration duration overflow">>, <<>>, <<>>, <<>>)
          ELSE IF args.expire # Zero64 /\ ~sum.some
          THEN Outcome("err", <<"Expiration time overflow">>, <<>>, <<>>, <<>>)
          ELSE
            LET expire_time == IF args.expire # Zero64 THEN sum.val ELSE Zero64
                order_expire == OrderExpireTime(submit_time, env.build)
            IN IF order_expire.panic
               THEN Outcome("panic", <<"attempt to add with overflow">>, <<>>, <<>>, <<>>)
               ELSE
                 LET order == [product_id |-> args.product_id,
                               order_id |-> submit_time,
                               price |-> args.price,
                               quantity |-> args.quantity,
                               order_type |-> args.order_type,
                               price_type |-> args.price_type,
                               submit_time |-> submit_time,
                               expire_time |-> order_expire.val]
                     serialized_message == main_serialize_order(order)
                     sent == send_multicast_message(serialized_message, env.send)
                 IN IF ~sent.ok
                    THEN Outcome("err", sent.err,
                                 DatagramsSent(serialized_message, env.send),
                                 serialized_message, <<>>)
                    ELSE Outcome("ok", <<>>,
                                 DatagramsSent(serialized_message, env.send),
                                 serialized_message, serialized_message)

handle_cancel(args, env) ==
  LET b1 == CopyInto(ZeroBuf, 1, <<MSG_ORDER_CANCEL>>)
      b2 == CopyInto(b1, 2, to_be_bytes(args.order_id))
      cancel_buf == CopyInto(b2, 0, <<main_calculate_checksum(b2).val>>)
      sent == send_multicast_message(cancel_buf, env.send)
  IN IF ~sent.ok
     THEN Outcome("err", sent.err, DatagramsSent(cancel_buf, env.send),
                  cancel_buf, <<>>)
     ELSE Outcome("ok", <<>>, DatagramsSent(cancel_buf, env.send),
                  cancel_buf, cancel_buf)

\* main: bind the sending socket, set the multicast TTL when the trade address
\* is a multicast address (a failure is only a warning), run the command
main(cli) ==
  IF ~cli.env.bind_ok
  THEN Outcome("err", <<"Failed to bind UDP socket: ">>, <<>>, <<>>, <<>>)
  ELSE IF cli.command = "submit" THEN handle_submit(cli.args, cli.env)
       ELSE handle_cancel(cli.args, cli.env)

\* the TTL of the sending socket after main's setup
MulticastTtl(cli) ==
  IF ~cli.env.bind_ok THEN "none"
  ELSE IF cli.env.addr = "multicast"
       THEN IF cli.env.ttl_ok THEN "10" ELSE "warning"
       ELSE "default"

\* ------------------------------------------------------- multicast listener
\* addr is the address string as the resolver sees it: form "literal" (an
\* ip:port text), "hostname" (host:port, resolved by lookup) or "invalid";
\* resolved is the number of addresses to_socket_addrs yields, family and
\* multicast describe the first of them.  os tells which socket calls
\* succeed.  steps lists the socket calls performed, in order.
ListenerOutcome(status, err, steps) ==
  [status |-> status, err |-> err, steps |-> steps]

create_multicast_listener(addr, os) ==
  IF addr.form = "invalid" \/ (addr.form = "hostname" /\ ~addr.lookup_ok)
  THEN ListenerOutcome("err", <<"Invalid multicast address format: ">>, <<>>)
  ELSE IF addr.resolved = 0
  THEN ListenerOutcome("err", <<"No address found">>, <<>>)
  ELSE IF ~addr.multicast
  THEN ListenerOutcome("err", <<"Address ", " is not a multicast address.">>, <<>>)
  ELSE IF ~os.socket_ok
  THEN ListenerOutcome("err", <<"Failed to create socket: ">>, <<>>)
  ELSE IF ~os.reuse_ok
  THEN ListenerOutcome("err", <<"Failed to set SO_REUSEADDR: ">>, <<"socket">>)
  \* addr.parse::<SocketAddr>().unwrap() accepts an ip:port text only
  ELSE IF addr.form # "literal"
  THEN ListenerOutcome("panic", <<"called Result::unwrap() on an Err value">>,
                       <<"socket", "set_reuse_address">>)
  ELSE IF ~os.bind_ok
  THEN ListenerOutcome("err", <<"Failed to bind listener socket to port ">>,
                       <<"socket", "set_reuse_address">>)
  ELSE IF addr.family = "v4"
  THEN IF ~os.join_ok
       THEN ListenerOutcome("err", <<"Failed to join multicast group ">>,
                            <<"socket", "set_reuse_address", "bind">>)
       ELSE ListenerOutcome("ok", <<>>,
                            <<"socket", "set_reuse_address", "bind",
                              "join_multicast_v4">>)
  ELSE ListenerOutcome("err", <<"IPv6 multicast not implemented in listener setup.">>,
                       <<"socket", "set_reuse_address", "bind">>)

\* ------------------------------------------------------------------ inputs
Max64 == <<65535, 65535, 65535, 65535>>
U16Samples == {<<7>>, <<258>>, <<65535>>}
U32Samples == {<<3, 0>>, <<772, 258>>, <<65535, 65535>>}
\* 1000, 0x0102030405060708, 2^64 - 1
U64Samples == {<<1000, 0, 0, 0>>, <<1800, 1286, 772, 258>>, Max64}
U8Samples == {1, 2, 255}
TagSamples == {0, 1, 2, 3, 10, 11, 99, 255}

\* byte i (0-based) of fill pattern p
Pattern(p, i) ==
  IF p = 0 THEN 0
  ELSE IF p = 1 THEN 255
  ELSE (p * (7 * i + 13)) % ByteBase

BufOf(len, tag, p) ==
  [i \in 1..len |-> IF i = 2 THEN tag ELSE Pattern(p, i - 1)]

\* buffer b with byte 0 set to the XOR of its bytes from 2 on: a frame as a
\* conforming sender emits it
SealedBuf(b) == [b EXCEPT ![1] = XorFold(SubSeq(b, 3, Len(b)), 1, 0)]

Buffers ==
  {BufOf(len, tag, p) : len \in 0..MaxBufLen, tag \in TagSamples, p \in 0..NumPatterns}
  \cup {SealedBuf(BufOf(MESSAGE_TOTAL_SIZE, tag, p)) :
          tag \in TagSamples, p \in 0..(NumPatterns + 1)}

Orders ==
  [product_id : U16Samples, order_id : U64Samples,
   price : {<<50000, 0, 0, 0>>, Max64}, quantity : U32Samples,
   order_type : U8Samples, price_type : {1, 2},
   submit_time : {<<51712, 15258, 0, 0>>, <<1800, 1286, 772, 258>>},
   expire_time : {Zero64, Max64}]

InstanceTags == {[i \in 1..8 |-> Pattern(p, i)] : p \in 0..NumPatterns}

Stats ==
  [instance_tag : InstanceTags, product_id : {<<7>>, <<65535>>},
   bids_size : {<<3, 0>>, <<65535, 65535>>}, ask_size : {<<0, 0>>, <<772, 258>>},
   matched_orders : {<<1, 0>>, <<65535, 65535>>},
   total_received_orders : {<<2, 0>>, <<0, 1>>},
   start_time : {<<1000, 0, 0, 0>>, <<1800, 1286, 772, 258>>}]

\* 0, 1, 60, the largest whole seconds whose nanoseconds fit 64 bits
\* (18446744073), the next one, 2^64 - 1
ExpireSamples ==
  {Zero64, <<1, 0, 0, 0>>, <<60, 0, 0, 0>>, <<64009, 19330, 4, 0>>,
   <<64010, 19330, 4, 0>>, Max64}

\* 10^9, a present-day reading (about 1.69 * 10^18), 2^64 - 1 - 10^9,
\* 2^64 - 10^9, 2^64 - 1
ClockNanos ==
  {<<51712, 15258, 0, 0>>, <<1800, 1286, 772, 6000>>,
   <<13823, 50277, 65535, 65535>>, <<13824, 50277, 65535, 65535>>, Max64}

Clocks ==
  {[kind |-> "ok", nanos |-> n] : n \in ClockNanos}
  \cup {[kind |-> "before_epoch", nanos |-> Zero64],
        [kind |-> "too_large", nanos |-> Zero64]}

Sends ==
  {[ok |-> TRUE, bytes_sent |-> MESSAGE_TOTAL_SIZE],
   [ok |-> TRUE, bytes_sent |-> MESSAGE_TOTAL_SIZE - 1],
   [ok |-> FALSE, bytes_sent |-> 0]}

Envs ==
  {e \in [bind_ok : BOOLEAN, addr : {"multicast", "unicast"}, ttl_ok : BOOLEAN,
          clock : Clocks, build : {"debug", "release"}, send : Sends] :
     /\ (e.addr = "unicast" => e.ttl_ok)
     /\ (~e.bind_ok => /\ e.addr = "multicast" /\ e.ttl_ok
                       /\ e.clock.kind = "before_epoch"
                       /\ e.build = "debug" /\ ~e.send.ok)}

SubmitArgs ==
  [product_id : {<<7>>, <<65535>>}, price : {<<50000, 0, 0, 0>>},
   quantity : {<<3, 0>>}, order_type : {ORDER_TYPE_BUY, ORDER_TYPE_SELL},
   price_type : {ORDER_PRICE_TYPE_LIMIT},
   expire : ExpireSamples]

\* the cancel command does not read the clock
CancelArgs == [order_id : U64Samples \cup {Zero64, <<42, 0, 0, 0>>}]

SubmitClis == [command : {"submit"}, args : SubmitArgs, env : Envs]
CancelClis ==
  [command : {"cancel"}, args : CancelArgs,
   env : {e \in Envs : e.clock.kind = "before_epoch" /\ e.build = "debug"}]

\* addresses: what cannot be resolved has no address, family or range
ListenerAddrs ==
  {a \in [form : {"literal", "hostname", "invalid"}, lookup_ok : BOOLEAN,
          resolved : 0..1, family : {"v4", "v6"}, multicast : BOOLEAN] :
     /\ (a.form = "literal" => a.lookup_ok /\ a.resolved = 1)
     /\ (a.form = "invalid" => ~a.lookup_ok)
     /\ (~a.lookup_ok => a.resolved = 0)
     /\ (a.resolved = 0 => a.family = "v4" /\ ~a.multicast)}

ListenerOs ==
  [socket_ok : BOOLEAN, reuse_ok : BOOLEAN, bind_ok : BOOLEAN, join_ok : BOOLEAN]

ListenerInputs == [addr : ListenerAddrs, os : ListenerOs]

\* ------------------------------------------------------------ state machine
VARIABLES pc, op, kind, input, ret
vars == <<pc, op, kind, input, ret>>

\* the caller holds an input (kind says which) and has called nothing yet
Init ==
  /\ pc = "ready"
  /\ op = "none"
  /\ ret = <<>>
  /\ \/ kind = "buf" /\ input \in Buffers
     \/ kind = "order" /\ input \in Orders
     \/ kind = "stats" /\ input \in Stats
     \/ kind = "cli" /\ input \in SubmitClis \cup CancelClis
     \/ kind = "listener" /\ input \in ListenerInputs

Return(name, value) ==
  /\ pc' = "returned"
  /\ op' = name
  /\ ret' = value
  /\ UNCHANGED <<kind, input>>

CalculateChecksum ==
  /\ pc = "ready" /\ kind = "buf"
  /\ LET r == calculate_checksum(input)
     IN /\ pc' = IF r.panic THEN "panicked" ELSE "returned"
        /\ op' = "calculate_checksum"
        /\ ret' = r
  /\ UNCHANGED <<kind, input>>

DeserializeMatchResult ==
  /\ pc = "ready" /\ kind = "buf"
  /\ Return("deserialize_match_result", deserialize_match_result(input))

DeserializeStatsResult ==
  /\ pc = "ready" /\ kind = "buf"
  /\ Return("deserialize_stats_result", deserialize_stats_result(input))

DecodeBroadcastMessage ==
  /\ pc = "ready" /\ kind = "buf"
  /\ Return("decode_broadcast_message", decode_broadcast_message(input))

SerializeOrder ==
  /\ pc = "ready" /\ kind = "order"
  /\ Return("serialize_order", serialize_order(input))

MainSerializeOrder ==
  /\ pc = "ready" /\ kind = "order"
  /\ Return("main_serialize_order", main_serialize_order(input))

SerializeStatsResult ==
  /\ pc = "ready" /\ kind = "stats"
  /\ Return("serialize_stats_result", serialize_stats_result(input))

MainSubmit ==
  /\ pc = "ready" /\ kind = "cli" /\ input.command = "submit"
  /\ LET r == main(input)
     IN /\ pc' = IF r.status = "panic" THEN "panicked" ELSE "returned"
        /\ op' = "main"
        /\ ret' = r @@ [ttl |-> MulticastTtl(input)]
  /\ UNCHANGED <<kind, input>>

MainCancel ==
  /\ pc = "ready" /\ kind = "cli" /\ input.command = "cancel"
  /\ LET r == main(input)
     IN /\ pc' = IF r.status = "panic" THEN "panicked" ELSE "returned"
        /\ op' = "main"
        /\ ret' = r @@ [ttl |-> MulticastTtl(input)]
  /\ UNCHANGED <<kind, input>>

CreateMulticastListener ==
  /\ pc = "ready" /\ kind = "listener"
  /\ LET r == create_multicast_listener(input.addr, input.os)
     IN /\ pc' = IF r.status = "panic" THEN "panicked" ELSE "returned"
        /\ op' = "create_multicast_listener"
        /\ ret' = r
  /\ UNCHANGED <<kind, input>>

Next ==
  \/ CalculateChecksum
  \/ DeserializeMatchResult
  \/ DeserializeStatsResult
  \/ DecodeBroadcastMessage
  \/ SerializeOrder
  \/ MainSerializeOrder
  \/ SerializeStatsResult
  \/ MainSubmit
  \/ MainCancel
  \/ CreateMulticastListener

Spec == Init /\ [][Next]_vars

\* ------------------------------------------------------------------ claims
\* XOR of the bytes f[2..50] of a frame
PayloadXor(f) == XorFold(SubSeq(f, 3, MESSAGE_TOTAL_SIZE), 1, 0)

AllZero(f, a, b) == \A i \in (a + 1)..b : f[i] = 0

\* the big-endian number held by bytes f[a..b] is the limb sequence v
HoldsBE(f, a, b, v) == from_be_bytes(SubSeq(f, a + 1, b)) = v

OrderFrame(f, o) ==
  /\ Len(f) = 50
  /\ f[2] = 1
  /\ HoldsBE(f, 2, 4, o.product_id)
  /\ HoldsBE(f, 4, 12, o.order_id)
  /\ HoldsBE(f, 12, 20, o.price)
  /\ HoldsBE(f, 20, 24, o.quantity)
  /\ f[25] = o.order_type
  /\ f[26] = o.price_type
  /\ HoldsBE(f, 26, 34, o.submit_time)
  /\ HoldsBE(f, 34, 42, o.expire_time)
  /\ AllZero(f, 42, 50)

\* C1: for every Order, serialize_order (encoding.rs and main.rs) returns a
\* 50-byte frame with tag 1, each field big-endian at its fixed offset and
\* bytes 42..50 zero; no order is rejected.
C1_OrderLayout ==
  (kind = "order" /\ pc # "ready") =>
     /\ pc = "returned"
     /\ op \in {"serialize_order", "main_serialize_order"}
     /\ OrderFrame(ret, input)

\* productId 258 and orderId 0x0102030405060708 appear byte by byte
C1_Witness ==
  /\ pc = "returned" /\ op = "serialize_order"
  /\ input.product_id = <<258>> /\ input.order_id = <<1800, 1286, 772, 258>>
  /\ input.order_type = 255 /\ input.price_type = 2
  /\ SubSeq(ret, 3, 12) = <<1, 2, 1, 2, 3, 4, 5, 6, 7, 8>>
  /\ ret[25] = 255 /\ ret[26] = 2

IsCancel == kind = "cli" /\ pc # "ready" /\ input.command = "cancel"
IsSubmit == kind = "cli" /\ pc # "ready" /\ input.command = "submit"

\* C2: for every orderId the cancel operation builds a 50-byte frame with
\* tag 2, the big-endian orderId in bytes 2..10, zeros in bytes 10..50 and
\* byte 0 equal to the XOR of bytes 2..50.
C2_CancelFrame ==
  (IsCancel /\ input.env.bind_ok) =>
     /\ Len(ret.message) = 50
     /\ ret.message[2] = 2
     /\ HoldsBE(ret.message, 2, 10, input.args.order_id)
     /\ AllZero(ret.message, 10, 50)
     /\ ret.message[1] = PayloadXor(ret.message)
     /\ (input.env.send.ok /\ input.env.send.bytes_sent = 50
           => ret.wire = <<ret.message>>)

\* orderId 42 sent: bytes 2..10 are 0,0,0,0,0,0,0,42 and the checksum is 42
C2_Witness ==
  /\ IsCancel /\ ret.status = "ok"
  /\ input.args.order_id = <<42, 0, 0, 0>>
  /\ SubSeq(ret.wire[1], 3, 10) = <<0, 0, 0, 0, 0, 0, 0, 42>>
  /\ ret.wire[1][1] = 42

\* the frames an operation produced
FramesProduced ==
  IF pc = "returned" /\ op \in {"serialize_order", "main_serialize_order",
                                 "serialize_stats_result"}
  THEN {ret}
  ELSE IF pc = "returned" /\ op = "main" /\ ret.message # <<>>
  THEN {ret.message}
  ELSE {}

\* C3: every frame produced by an encoder (serialize_order in both files,
\* the cancel encoding, serialize_stats_result) has byte 0 equal to the XOR
\* of its bytes 2..50, so verifying its checksum yields true.
C3_EncodedFramesValid ==
  \A f \in FramesProduced :
     /\ Len(f) = 50
     /\ f[1] = PayloadXor(f)
     /\ ~calculate_checksum(f).panic
     /\ calculate_checksum(f).val = f[1]

\* a status frame with a non-zero checksum
C3_Witness ==
  /\ pc = "returned" /\ op = "serialize_stats_result"
  /\ ret[2] = 11 /\ ret[1] # 0 /\ ret[1] = PayloadXor(ret)


IsCall(name) == kind = "buf" /\ pc # "ready" /\ op = name

\* the bytes of frame f with bytes 0, 1, 48 and 49 overwritten
Overwritten(f, x, y) == [f EXCEPT ![1] = x, ![2] = y, ![49] = y, ![50] = x]

\* C4: for every 50-byte frame deserialize_match_result reads instanceTag
\* verbatim from bytes 2..10 and the big-endian productId, buyOrderId,
\* sellOrderId, price, quantity, tradeNetworkTime and internalMatchTime from
\* bytes 10..12, 12..20, 20..28, 28..36, 36..40, 40..44 and 44..48; bytes 0,
\* 1, 48 and 49 do not influence the result.
C4_MatchResultLayout ==
  (IsCall("deserialize_match_result") /\ Len(input) = 50) =>
     /\ pc = "returned" /\ ret.ok
     /\ ret.val.instance_tag = SubSeq(input, 3, 10)
     /\ to_be_bytes(ret.val.product_id) = SubSeq(input, 11, 12)
     /\ to_be_bytes(ret.val.buy_order_id) = SubSeq(input, 13, 20)
     /\ to_be_bytes(ret.val.sell_order_id) = SubSeq(input, 21, 28)
     /\ to_be_bytes(ret.val.price) = SubSeq(input, 29, 36)
     /\ to_be_bytes(ret.val.quantity) = SubSeq(input, 37, 40)
     /\ to_be_bytes(ret.val.trade_network_time) = SubSeq(input, 41, 44)
     /\ to_be_bytes(ret.val.internal_match_time) = SubSeq(input, 45, 48)
     /\ \A x, y \in {0, 10, 77, 255} :
           deserialize_match_result(Overwritten(input, x, y)) = ret

\* a frame filled with the bytes (14 i + 26) mod 256: productId is 0xA6B4,
\* the two time fields differ
C4_Witness ==
  /\ IsCall("deserialize_match_result")
  /\ input = BufOf(50, 10, 2)
  /\ ret.ok
  /\ ret.val.product_id = <<42676>>
  /\ ret.val.trade_network_time # ret.val.internal_match_time

\* C5: for every 50-byte frame decode_broadcast_message routes by byte 1
\* only: tag 10 invokes only the trade decoder and returns a trade summary,
\* tag 11 invokes only the status decoder and returns a status summary, every
\* other tag returns an unknown-tag error that reports the received bytes,
\* the offending tag among them.
C5_TagDispatch ==
  (IsCall("decode_broadcast_message") /\ Len(input) = 50) =>
     /\ pc = "returned"
     /\ input[2] = 10 =>
           /\ ret.ok
           /\ ret.calls = <<"deserialize_match_result">>
           /\ ret.val[1] = "TRADE: Product="
           /\ to_be_bytes(ret.val[2]) = SubSeq(input, 11, 12)
     /\ input[2] = 11 =>
           /\ ret.ok
           /\ ret.calls = <<"deserialize_stats_result">>
           /\ ret.val[1] = "STATUS: Product="
           /\ to_be_bytes(ret.val[4]) = SubSeq(input, 13, 16)
     /\ input[2] \notin {10, 11} =>
           /\ ~ret.ok
           /\ ret.calls = <<>>
           /\ ret.val = <<>>
           /\ ret.err[1] = "Unknown or unhandled message type: "
           /\ ret.err[2] = input
           /\ ret.err[2][2] = input[2]

\* tag 99: the error carries the whole frame
C5_Witness ==
  /\ IsCall("decode_broadcast_message")
  /\ input = BufOf(50, 99, 2)
  /\ ~ret.ok
  /\ ret.err[2][2] = 99

TooSmallMessages ==
  {<<"Buffer size is too small for MatchResult.">>,
   <<"Buffer size is too small for BroadcastStats.">>,
   <<"Received buffer is too small.">>}

IsDecoderCall ==
  \/ IsCall("deserialize_match_result")
  \/ IsCall("deserialize_stats_result")
  \/ IsCall("decode_broadcast_message")

\* C6: for every buffer of length 0..49 each of deserialize_match_result,
\* deserialize_stats_result and decode_broadcast_message returns a too-short
\* error and no value.
C6_ShortBufferRejected ==
  (IsDecoderCall /\ Len(input) < 50) =>
     /\ pc = "returned"
     /\ ~ret.ok
     /\ ret.val = <<>>
     /\ ret.err \in TooSmallMessages

\* a 49-byte buffer with the status tag is refused by the status decoder
C6_Witness ==
  /\ IsCall("deserialize_stats_result")
  /\ Len(input) = 49 /\ input[2] = 11
  /\ ~ret.ok

\* C7 as claimed: the decoders succeed only when the buffer length is
\* exactly 50 and fail for every other length, longer buffers included.
C7_ExactLength ==
  IsDecoderCall => (ret.ok => Len(input) = 50)

\* C7 amended: the decoders enforce a minimum length only.  The two
\* deserializers succeed exactly when the buffer has at least 50 bytes and
\* decode a longer buffer as its first 50 bytes; decode_broadcast_message
\* returns the too-small error exactly when the buffer has fewer than 50
\* bytes and succeeds on tags 10 and 11 otherwise.
C7_MinimumLength ==
  /\ IsCall("deserialize_match_result") =>
        /\ ret.ok <=> Len(input) >= 50
        /\ Len(input) > 50 =>
              ret = deserialize_match_result(SubSeq(input, 1, 50))
  /\ IsCall("deserialize_stats_result") =>
        /\ ret.ok <=> Len(input) >= 50
        /\ Len(input) > 50 =>
              ret = deserialize_stats_result(SubSeq(input, 1, 50))
  /\ IsCall("decode_broadcast_message") =>
        /\ ret.err \in TooSmallMessages <=> Len(input) < 50
        /\ ret.ok <=> (Len(input) >= 50 /\ input[2] \in {10, 11})

\* a 51-byte buffer is decoded
C7_Witness ==
  /\ IsCall("deserialize_match_result")
  /\ Len(input) = 51
  /\ ret.ok
  /\ ret.val.instance_tag = SubSeq(input, 3, 10)

\* submitTime + expiry * 10^9 as the claims state it
ClaimedExpire(submit, expiry) ==
  checked_add(submit, checked_mul(expiry, ExpireFactor).val).val

\* C8: in the frame a submit sends, expireTimeNanos (bytes 34..42) is 0 when
\* the expiry argument is 0 and submitTimeNanos + expiry * 1_000_000_000 when
\* it is a positive number of seconds.
C8_ExpireField ==
  (IsSubmit /\ ret.status = "ok") =>
     /\ Len(ret.wire) = 1
     /\ SubSeq(ret.wire[1], 27, 34) = to_be_bytes(input.env.clock.nanos)
     /\ SubSeq(ret.wire[1], 35, 42) =
           IF input.args.expire = Zero64 THEN to_be_bytes(Zero64)
           ELSE to_be_bytes(ClaimedExpire(input.env.clock.nanos, input.args.expire))

\* some step of the expiry computation of handle_submit leaves the u64 range
ExpiryOverflows(submit, expiry) ==
  \/ /\ expiry # Zero64
     /\ \/ MulOverflows(expiry, ExpireFactor)
        \/ AddOverflows(submit, checked_mul(expiry, ExpireFactor).val)
  \/ AddOverflows(submit, OrderExpireOffset)

\* C9: whenever computing the expiry timestamp of a submit overflows 64
\* bits the operation ends with a validation error and sends no datagram; no
\* arithmetic on the expiry timestamp overflows without that error.
C9_OverflowRejected ==
  (IsSubmit /\ input.env.bind_ok /\ input.env.clock.kind = "ok"
     /\ ExpiryOverflows(input.env.clock.nanos, input.args.expire)) =>
        /\ pc = "returned"
        /\ ret.status = "err"
        /\ ret.err \in {<<"Expiration duration overflow">>,
                         <<"Expiration time overflow">>}
        /\ ret.wire = <<>>

\* C10: for every buffer of every length and content calculate_checksum,
\* deserialize_match_result, deserialize_stats_result and
\* decode_broadcast_message return a value without panicking.
C10_NeverFaults ==
  (kind = "buf" /\ pc # "ready") => pc = "returned"

\* 2^b
RECURSIVE Pow2(_)
Pow2(b) == IF b = 0 THEN 1 ELSE 2 * Pow2(b - 1)

\* frame f with bit b of the byte at 0-based offset i inverted
FlipBit(f, i, b) == [f EXCEPT ![i + 1] = BitXor(f[i + 1], Pow2(b))]

\* the checksum check of the claims: calculate_checksum(frame) == frame[0]
ChecksumCheck(f) == calculate_checksum(f).val = f[1]

\* C11: for every valid 50-byte frame, inverting any single bit of any byte
\* in bytes 2..50 makes the checksum check false, and inverting a bit of
\* byte 1 leaves it true.
C11_BitFlipDetected ==
  (IsCall("calculate_checksum") /\ Len(input) = 50
     /\ input[1] = PayloadXor(input)) =>
        /\ pc = "returned"
        /\ ret.val = input[1]
        /\ \A i \in 2..49 : \A b \in 0..7 : ~ChecksumCheck(FlipBit(input, i, b))
        /\ \A b \in 0..7 : ChecksumCheck(FlipBit(input, 1, b))

\* a valid frame with a non-zero payload and checksum: inverting the lowest
\* bit of byte 2 or the highest bit of byte 49 is detected
C11_Witness ==
  /\ IsCall("calculate_checksum")
  /\ input = SealedBuf(BufOf(50, 10, 3))
  /\ input[1] = 48
  /\ ret.val = input[1]
  /\ ~ChecksumCheck(FlipBit(input, 2, 0))
  /\ ~ChecksumCheck(FlipBit(input, 49, 7))
  /\ ChecksumCheck(FlipBit(input, 1, 3))

\* C12: after sending its request the client runs a receive loop on the
\* result-group listener (length check, advisory checksum check, dispatch;
\* an unknown tag only produces a diagnostic; only a hard socket error ends
\* the loop): once the request is sent the client is receiving, and main
\* does not return Ok after the send.
C12_ReceiveLoopRuns ==
  (kind = "cli" /\ pc # "ready" /\ ret.status = "ok" /\ ret.wire # <<>>) =>
     pc = "receiving"

ListenerSteps == <<"socket", "set_reuse_address", "bind", "join_multicast_v4">>

IsListenerCall == kind = "listener" /\ pc # "ready"

\* C13: create_multicast_listener on an address whose IP is not multicast
\* returns the not-multicast error with no socket created, configured, bound
\* or joined; on a multicast address the steps are address reuse, bind, join
\* in that order, and a failing step returns an error with no later step
\* performed.
C13_ListenerSteps ==
  (IsListenerCall /\ input.addr.resolved = 1) =>
     /\ ~input.addr.multicast =>
           /\ pc = "returned" /\ ret.status = "err"
           /\ ret.err = <<"Address ", " is not a multicast address.">>
           /\ ret.steps = <<>>
     /\ input.addr.multicast =>
           /\ pc = "returned"
           /\ ret.status \in {"ok", "err"}
           /\ \E n \in 0..4 : ret.steps = SubSeq(ListenerSteps, 1, n)
           /\ ret.status = "ok" <=> ret.steps = ListenerSteps
           /\ (input.addr.family = "v4" /\ input.os.socket_ok /\ input.os.reuse_ok
                /\ input.os.bind_ok /\ input.os.join_ok) => ret.status = "ok"

====
